---- MODULE Spec2Model ----
(***************************************************************************)
(* State-machine model of the rental-property API server (src/server.js).  *)
(*                                                                         *)
(* Every handler is an async function whose only interaction with shared   *)
(* state is `await pool.query(...)`.  The store executes one statement at  *)
(* a time (autocommit, no transaction is ever opened by the code), and the *)
(* JavaScript between two awaits is local to the request.  One action of   *)
(* the model is therefore: one statement executed by the store, followed   *)
(* by the handler's local code up to the next await (or to its response).  *)
(* Requests interleave between actions.                                    *)
(*                                                                         *)
(* Columns that no handler reads back in a condition (password hash,       *)
(* full_name, phone_number, line_id, description, meter, timestamps) are   *)
(* payload and are not part of the rows below.                             *)
(***************************************************************************)
EXTENDS Integers, Sequences, FiniteSets, TLC

VARIABLES
    rooms,            \* table rooms: room_id -> [room_number, rent, status]
    users,            \* table users: user_id -> [username, room_number, role]
    nextUserId,       \* AUTO_INCREMENT of users.user_id
    bills,            \* table bills: bill_id -> row
    nextBillId,       \* AUTO_INCREMENT of bills.bill_id
    payment_history,  \* table payment_history: sequence of rows, in insert order
    treq,             \* tenant requests in flight: slot -> handler position and locals
    breq,             \* bill requests in flight: slot -> handler position and locals
    rreq,             \* room requests in flight: slot -> handler position and locals
    snap,             \* history: the tables as they were when the latest request arrived
    storeFailed,      \* history: the store has rejected a statement with an error
    nextRoomId,       \* AUTO_INCREMENT of rooms.room_id
    freeConnections,  \* connections of the pool that are not checked out
    probe             \* the liveness probe: position of the running callback and its log

vars == <<rooms, users, nextUserId, bills, nextBillId, payment_history,
          treq, breq, rreq, snap, storeFailed, nextRoomId, freeConnections, probe>>

tenancyVars == <<rooms, users, nextUserId, treq>>
billingVars == <<bills, nextBillId, payment_history, breq>>
serverVars == <<nextRoomId, freeConnections, probe>>

-----------------------------------------------------------------------------
(* Bounds of the model *)

MaxUsers == 3        \* user rows ever inserted
MaxRaceUsers == 2    \* user rows ever inserted while requests are served concurrently
MaxBills == 2        \* bill rows ever inserted
MaxLedgerBills == 1  \* bill rows ever inserted while every body of a request is tried
MaxHistory == 2      \* payment_history rows ever inserted
MaxHouseUsers == 1   \* user rows ever inserted while every kind of request is served
MaxProbes == 2       \* callbacks of the liveness probe running at a time
MaxRooms == 4        \* room rows ever inserted, the two initial rooms included

Slots == {"s1", "s2"}            \* concurrently served requests

Null == "NULL"                   \* SQL NULL / a JSON field that is absent

Usernames == {"alice", "bob"}
UsernameInputs == Usernames \cup {""}
RoomNumbers == {"101", "102"}    \* numbers of the room rows of Init
RoomInputs == RoomNumbers \cup {"103"}   \* "103": no such room row
PasswordInputs == {5, 6}         \* length of the password in the request
RoleInputs == {"user"}
RaceRoomInputs == {"101", "103"}

Undef == "undefined"             \* a field the request body does not carry
RoleBodies == {Undef, "user", "admin"}     \* Undef: the body carries no role
UndefNum == -1                   \* the same, for a numeric field
NaN == [nan |-> TRUE, num |-> 0]   \* what parseInt gives when it reads no digit
Today == "today"                 \* new Date().toISOString().split("T")[0]

\* Bodies of POST /api/bills
BillUserInputs == {1}
BillRoomInputs == {"101", "102", "103"}
RaceBillRoomInputs == {"101", "103"}
WaterInputs == {10, 15}
RaceWaterInputs == {10}
ElectricityInputs == {20}
DueDateInputs == {"2024-05-01"}

\* Bodies of PUT /api/rooms/:room_id
RoomIdInputs == {1, 2, 3}        \* 3: no such room row
RoomNumberInputs == {"101", "102"}
RentInputs == {0, 3500}          \* 0: the body carries no rent
StatusInputs == {Undef, "available", "occupied"}

\* Rooms and room ids named while rooms are created and deleted
EstateRoomInputs == {"101", "103"}
EstateRoomIdInputs == {1, 3}
RaceRoomIdInputs == {1, 2, 3}

\* Path segments of DELETE /api/bills/:id, each the sequence of the code
\* units of its characters ("0" is 48, "a" is 97, " " is 32, "+" is 43,
\* "-" is 45).
BadBillPaths == {<<97, 98, 99>>, <<49, 97, 98, 99>>}         \* abc  1abc
SignedBillPaths == {<<32, 49>>, <<43, 49>>, <<45, 49>>}      \* " 1"  +1  -1

\* Bodies of PUT /api/bills/:id
PutBillInputs ==
    [slip_path : {Undef, "slip.png"}, payment_state : {Undef, "paid", "unpaid"},
     paid_date : {Undef, "2024-05-10"}, water_units : {UndefNum, 15},
     electricity_units : {UndefNum}, due_date : {Undef}]
RacePutBillInputs ==
    [slip_path : {Undef}, payment_state : {Undef, "paid", "unpaid"},
     paid_date : {Undef, "2024-05-10"}, water_units : {UndefNum},
     electricity_units : {UndefNum}, due_date : {Undef}]

PayingBodies ==
    [slip_path : {Undef}, payment_state : {"paid"},
     paid_date : {Undef, "2024-05-10"}, water_units : {UndefNum},
     electricity_units : {UndefNum}, due_date : {Undef}]
FramePutBillInputs ==
    [slip_path : {Undef, "slip.png"}, payment_state : {Undef, "paid"},
     paid_date : {Undef}, water_units : {UndefNum, 15},
     electricity_units : {UndefNum}, due_date : {Undef}]

\* A request that carries no body (POST and DELETE are not merged).
NoBody ==
    [slip_path |-> Undef, payment_state |-> Undef, paid_date |-> Undef,
     water_units |-> UndefNum, electricity_units |-> UndefNum,
     due_date |-> Undef]
PaidBody == [NoBody EXCEPT !.payment_state = "paid"]
UsageBody == [NoBody EXCEPT !.water_units = 15]

-----------------------------------------------------------------------------
(* Program constants *)

MinPasswordLen == 6
water_rate == 20
electricity_rate == 8
maxRent == 99999999
connectionLimit == 10

-----------------------------------------------------------------------------
(* The store: statements used by the tenant handlers *)

EmptyTable == [k \in {} |-> 0]

\* The WHERE clause is missing: every room row is returned.
RoomsNumberedAny(n) == DOMAIN rooms

\* SELECT * FROM rooms WHERE room_number = ?
RoomsNumbered(n) == {i \in DOMAIN rooms : rooms[i].room_number = n}

\* SELECT * FROM rooms WHERE room_number = ? AND status = 'occupied'
RoomsInUse(n) == {i \in RoomsNumbered(n) : rooms[i].status = "occupied"}

\* UPDATE rooms SET status = ? WHERE room_number = ?
SetRoomStatus(n, s) ==
    [i \in DOMAIN rooms |->
        IF rooms[i].room_number = n THEN [rooms[i] EXCEPT !.status = s]
        ELSE rooms[i]]

\* Mutant of UsersInRoomExcept: "user_id = ?" written for "user_id != ?".
UsersInRoomOnlySelf(n, uid) ==
    {u \in DOMAIN users : users[u].room_number = n /\ u = uid}

\* SELECT * FROM users WHERE room_number = ? AND user_id != ?
UsersInRoomExcept(n, uid) ==
    {u \in DOMAIN users : users[u].room_number = n /\ u # uid}

\* Mutant of DupUsername: the key compares a row with itself only.
DupUsernameSameRow(name, uid) ==
    \E u \in DOMAIN users : u = uid /\ users[u].username = name

\* The UNIQUE key on users.username: the row (uid = 0: a new row) would
\* collide with another row and the statement raises ER_DUP_ENTRY.
DupUsername(name, uid) ==
    \E u \in DOMAIN users : u # uid /\ users[u].username = name

\* role || "user"      (POST /api/register)
RoleOrUser(role) == IF role \in {Undef, Null, ""} THEN "user" ELSE role

\* role || null        (PUT /api/users/:user_id)
RoleOrNull(role) == IF role \in {Undef, Null, ""} THEN Null ELSE role

-----------------------------------------------------------------------------
(* Request slots *)

IdleT == [op |-> "none", pc |-> "idle", uid |-> 0, username |-> Null,
          room |-> Null, role |-> Null, oldRoom |-> Null, resp |-> "none",
          failpc |-> Null, fault |-> FALSE, conc |-> FALSE, vac |-> FALSE,
          freed |-> Null, fresh |-> FALSE, mixed |-> FALSE]

InFlightT(s) == treq[s].pc \notin {"idle", "done"}
FreeT(s) == ~InFlightT(s)

NoSnap == [owner |-> "none", kind |-> "none", rooms |-> EmptyTable,
           users |-> EmptyTable, bills |-> EmptyTable, history |-> <<>>]

\* The tables as they are when slot s accepts a request of one of the three
\* kinds of handler ("tenant", "bill", "room").
SnapNow(s, kind) ==
    [owner |-> s, kind |-> kind, rooms |-> rooms, users |-> users,
     bills |-> bills, history |-> payment_history]

\* History bookkeeping when slot s accepts a request: a request that
\* arrives while another is in flight is concurrent with it (mixed: with a
\* request that is not a registration), and only a request that arrives
\* alone has its before-state remembered.
Arrive(s, rec) ==
    LET others == {q \in Slots \ {s} : InFlightT(q)} IN
    /\ treq' = [q \in Slots |->
                  IF q = s
                  THEN [rec EXCEPT !.conc = (others # {}),
                                   !.mixed = (\E o \in others : treq[o].op # "register")]
                  ELSE IF q \in others
                  THEN [treq[q] EXCEPT !.conc = TRUE,
                                       !.mixed = (@ \/ rec.op # "register")]
                  ELSE treq[q]]
    /\ snap' = IF others = {} THEN SnapNow(s, "tenant") ELSE NoSnap

\* The handler of slot s sends its response.
Respond(s, r) == treq' = [treq EXCEPT ![s].pc = "done", ![s].resp = r]
Goto(s, pc) == treq' = [treq EXCEPT ![s].pc = pc]

\* The statement at the handler's position throws and the catch block of
\* PUT /api/users/:user_id answers 500.
Throw(s) == treq' = [treq EXCEPT ![s].pc = "done", ![s].resp = "error",
                                ![s].failpc = treq[s].pc]

-----------------------------------------------------------------------------
(* POST /api/register *)

\* Ghost of a register request: the room it names exists, is 'available'
\* and is referenced by no user when the request arrives.
Vacant(n) ==
    /\ \E i \in DOMAIN rooms : rooms[i].room_number = n
    /\ \A i \in DOMAIN rooms : rooms[i].room_number = n => rooms[i].status = "available"
    /\ \A u \in DOMAIN users : users[u].room_number # n

\* Requests accepted but not yet past their INSERT INTO users.
PendingInserts == Cardinality({q \in Slots : treq[q].op = "register" /\ InFlightT(q)
                                             /\ treq[q].uid = 0})

\* Ghost of a register request: the room that the request served just
\* before it, a DELETE /api/users/:user_id answered 200, took from the
\* deleted user (Null when the previous request was anything else).
FreedBefore(s) ==
    IF /\ treq[s].op = "delete" /\ treq[s].pc = "done" /\ treq[s].resp = "ok"
       /\ ~treq[s].conc
       /\ snap.owner = s /\ snap.kind = "tenant"
       /\ \A q \in Slots : ~InFlightT(q)
       /\ treq[s].uid \in DOMAIN snap.users
    THEN snap.users[treq[s].uid].room_number
    ELSE Null

StartRegister(s, username, pwlen, room, role) ==
    /\ FreeT(s)
    /\ nextUserId + PendingInserts <= MaxUsers
    /\ LET rec == [IdleT EXCEPT !.op = "register", !.username = username,
                                !.room = room, !.role = role,
                                !.vac = (room # Null /\ Vacant(room)),
                                !.freed = FreedBefore(s),
                                !.fresh = ~DupUsername(username, 0)] IN
       IF username = "" \/ pwlen < MinPasswordLen
       THEN Arrive(s, [rec EXCEPT !.pc = "done", !.resp = "invalid"])
       ELSE Arrive(s, [rec EXCEPT !.pc = IF room # Null THEN "reg_inuse"
                                         ELSE "reg_insert"])
    /\ UNCHANGED <<rooms, users, nextUserId, billingVars, rreq, storeFailed, serverVars>>

\* 1) SELECT * FROM rooms WHERE room_number = ? AND status = 'occupied'
RegInUse(s) ==
    /\ treq[s].pc = "reg_inuse"
    /\ IF RoomsInUse(treq[s].room) # {}
       THEN Respond(s, "room_occupied")
       ELSE Goto(s, "reg_exists")
    /\ UNCHANGED <<rooms, users, nextUserId, billingVars, rreq, snap, storeFailed, serverVars>>

\* 2) SELECT * FROM rooms WHERE room_number = ?
RegExists(s) ==
    /\ treq[s].pc = "reg_exists"
    /\ IF RoomsNumbered(treq[s].room) = {}
       THEN Respond(s, "room_not_found")
       ELSE Goto(s, "reg_insert")
    /\ UNCHANGED <<rooms, users, nextUserId, billingVars, rreq, snap, storeFailed, serverVars>>

\* 3) INSERT INTO users (...) VALUES (...); ER_DUP_ENTRY is caught as 400
RegInsert(s) ==
    /\ treq[s].pc = "reg_insert"
    /\ IF DupUsername(treq[s].username, 0)
       THEN /\ Respond(s, "dup_username")
            /\ UNCHANGED <<users, nextUserId, storeFailed, serverVars>>
       ELSE /\ users' = users @@ (nextUserId :>
                   [username |-> treq[s].username,
                    room_number |-> treq[s].room,
                    role |-> RoleOrUser(treq[s].role)])
            /\ nextUserId' = nextUserId + 1
            /\ treq' = [treq EXCEPT
                   ![s].uid = nextUserId,
                   ![s].pc = IF treq[s].room # Null THEN "reg_setocc" ELSE "done",
                   ![s].resp = IF treq[s].room # Null THEN "none" ELSE "created"]
    /\ UNCHANGED <<rooms, billingVars, rreq, snap, storeFailed, serverVars>>

\* 4) UPDATE rooms SET status = 'occupied' WHERE room_number = ?
RegSetOccupied(s) ==
    /\ treq[s].pc = "reg_setocc"
    /\ rooms' = SetRoomStatus(treq[s].room, "occupied")
    /\ Respond(s, "created")
    /\ UNCHANGED <<users, nextUserId, billingVars, rreq, snap, storeFailed, serverVars>>

-----------------------------------------------------------------------------
(* PUT /api/users/:user_id *)

StartUpdate(s, uid, username, room, role) ==
    /\ FreeT(s)
    /\ LET rec == [IdleT EXCEPT !.op = "update", !.uid = uid,
                                !.username = username, !.room = room,
                                !.role = role] IN
       IF username = "" \/ room = Null
       THEN Arrive(s, [rec EXCEPT !.pc = "done", !.resp = "invalid"])
       ELSE Arrive(s, [rec EXCEPT !.pc = "upd_cur"])
    /\ UNCHANGED <<rooms, users, nextUserId, billingVars, rreq, storeFailed, serverVars>>

\* SELECT * FROM users WHERE user_id = ?
UpdCurrentUser(s) ==
    /\ treq[s].pc = "upd_cur"
    /\ IF treq[s].uid \notin DOMAIN users
       THEN Respond(s, "not_found")
       ELSE treq' = [treq EXCEPT ![s].oldRoom = users[treq[s].uid].room_number,
                                 ![s].pc = "upd_occ"]
    /\ UNCHANGED <<rooms, users, nextUserId, billingVars, rreq, snap, storeFailed, serverVars>>

\* SELECT * FROM users WHERE room_number = ? AND user_id != ?
UpdRoomOccupied(s) ==
    /\ treq[s].pc = "upd_occ"
    /\ IF UsersInRoomExcept(treq[s].room, treq[s].uid) # {}
       THEN Respond(s, "room_occupied")
       ELSE IF treq[s].oldRoom # Null /\ treq[s].oldRoom # treq[s].room
       THEN Goto(s, "upd_release")
       ELSE Goto(s, "upd_exists")
    /\ UNCHANGED <<rooms, users, nextUserId, billingVars, rreq, snap, storeFailed, serverVars>>

\* UPDATE rooms SET status = 'available' WHERE room_number = <old room>
UpdReleaseOld(s) ==
    /\ treq[s].pc = "upd_release"
    /\ rooms' = SetRoomStatus(treq[s].oldRoom, "available")
    /\ Goto(s, "upd_exists")
    /\ UNCHANGED <<users, nextUserId, billingVars, rreq, snap, storeFailed, serverVars>>

\* SELECT * FROM rooms WHERE room_number = ?
UpdRoomExists(s) ==
    /\ treq[s].pc = "upd_exists"
    /\ IF RoomsNumbered(treq[s].room) = {}
       THEN Goto(s, "upd_insroom")
       ELSE Goto(s, "upd_claim")
    /\ UNCHANGED <<rooms, users, nextUserId, billingVars, rreq, snap, storeFailed, serverVars>>

\* INSERT INTO rooms (room_number, room_number, size, rent, status) VALUES (?,?,?,?,?)
\* The column list names room_number twice: the store rejects the statement
\* (ER_FIELD_SPECIFIED_TWICE) whatever the tables hold, and the handler's
\* catch answers 500.  No room row is inserted.
UpdInsertRoom(s) ==
    /\ treq[s].pc = "upd_insroom"
    /\ Throw(s)
    /\ UNCHANGED <<rooms, users, nextUserId, billingVars, rreq, snap, storeFailed, serverVars>>

\* UPDATE rooms SET status = 'occupied' WHERE room_number = ?
UpdClaimNew(s) ==
    /\ treq[s].pc = "upd_claim"
    /\ rooms' = SetRoomStatus(treq[s].room, "occupied")
    /\ Goto(s, "upd_user")
    /\ UNCHANGED <<users, nextUserId, billingVars, rreq, snap, storeFailed, serverVars>>

\* UPDATE users SET username = ?, ..., role = ?, room_number = ? WHERE user_id = ?
\* affectedRows = 0 when the row is gone; ER_DUP_ENTRY falls into the
\* generic catch (500).
UpdUserRow(s) ==
    /\ treq[s].pc = "upd_user"
    /\ IF treq[s].uid \notin DOMAIN users
       THEN Respond(s, "not_found") /\ UNCHANGED users
       ELSE IF DupUsername(treq[s].username, treq[s].uid)
       THEN Throw(s) /\ UNCHANGED users
       ELSE /\ users' = [users EXCEPT ![treq[s].uid] =
                  [username |-> treq[s].username,
                   room_number |-> treq[s].room,
                   role |-> RoleOrNull(treq[s].role)]]
            /\ Respond(s, "ok")
    /\ UNCHANGED <<rooms, nextUserId, billingVars, rreq, snap, storeFailed, serverVars>>

-----------------------------------------------------------------------------
(* DELETE /api/users/:user_id *)

StartDelete(s, uid) ==
    /\ FreeT(s)
    /\ Arrive(s, [IdleT EXCEPT !.op = "delete", !.uid = uid, !.pc = "del_sel"])
    /\ UNCHANGED <<rooms, users, nextUserId, billingVars, rreq, storeFailed, serverVars>>

\* SELECT * FROM users WHERE user_id = ?
DelSelectUser(s) ==
    /\ treq[s].pc = "del_sel"
    /\ IF treq[s].uid \notin DOMAIN users
       THEN Respond(s, "not_found")
       ELSE treq' = [treq EXCEPT ![s].oldRoom = users[treq[s].uid].room_number,
                                 ![s].pc = "del_user"]
    /\ UNCHANGED <<rooms, users, nextUserId, billingVars, rreq, snap, storeFailed, serverVars>>

\* DELETE FROM users WHERE user_id = ?
DelUserRow(s) ==
    /\ treq[s].pc = "del_user"
    /\ IF treq[s].uid \in DOMAIN users
       THEN /\ users' = [u \in DOMAIN users \ {treq[s].uid} |-> users[u]]
            /\ IF treq[s].oldRoom # Null
               THEN Goto(s, "del_release")
               ELSE Respond(s, "ok")
       ELSE Respond(s, "error") /\ UNCHANGED users
    /\ UNCHANGED <<rooms, nextUserId, billingVars, rreq, snap, storeFailed, serverVars>>

\* UPDATE rooms SET status = 'available' WHERE room_number = ?
DelReleaseRoom(s) ==
    /\ treq[s].pc = "del_release"
    /\ rooms' = SetRoomStatus(treq[s].oldRoom, "available")
    /\ Respond(s, "ok")
    /\ UNCHANGED <<users, nextUserId, billingVars, rreq, snap, storeFailed, serverVars>>

-----------------------------------------------------------------------------
(* A statement of a tenant handler is rejected by the store (connection
   lost, timeout, deadlock): pool.query throws, the statement has no
   effect, and the handler's catch answers 500. *)

TenantQueryFails(s) ==
    /\ InFlightT(s)
    /\ treq' = [treq EXCEPT ![s].pc = "done", ![s].resp = "error",
                            ![s].failpc = treq[s].pc, ![s].fault = TRUE]
    /\ storeFailed' = TRUE
    /\ UNCHANGED <<rooms, users, nextUserId, billingVars, rreq, snap, serverVars>>

-----------------------------------------------------------------------------
(* The store: the bills and payment_history tables *)

\* bills.total_amount is written by no statement of the server: the store
\* fills it when the row is inserted.
BillTotalAtInsert(water, elec, rent) ==
    water * water_rate + elec * electricity_rate + rent

\* Mutant of RentOf: the WHERE clause is missing, the first row is read.
RentOfFirstRow(n) ==
    rooms[CHOOSE i \in DOMAIN rooms : \A j \in DOMAIN rooms : i <= j].rent

\* SELECT rent FROM rooms WHERE room_number = ?  ...  roomRows[0].rent
RentOf(n) ==
    rooms[CHOOSE i \in RoomsNumbered(n) : \A j \in RoomsNumbered(n) : i <= j].rent

\* Mutant of NewBillRow: two positional values change places.
NewBillRowUnitsSwapped(uid, room, water, elec, rent, due) ==
    [user_id |-> uid, room_number |-> room,
     water_units |-> elec, electricity_units |-> water,
     water_rate |-> water_rate, electricity_rate |-> electricity_rate,
     rent_amount |-> rent,
     total_amount |-> BillTotalAtInsert(elec, water, rent),
     due_date |-> due, slip_path |-> Null, payment_state |-> "unpaid",
     paid_date |-> Null]

\* The row stored by INSERT INTO bills (user_id, room_number, water_units,
\* electricity_units, water_rate, electricity_rate, rent_amount, due_date,
\* meter) VALUES (...): payment_state, slip_path and paid_date take their
\* column defaults.
NewBillRow(uid, room, water, elec, rent, due) ==
    [user_id |-> uid, room_number |-> room,
     water_units |-> water, electricity_units |-> elec,
     water_rate |-> water_rate, electricity_rate |-> electricity_rate,
     rent_amount |-> rent,
     total_amount |-> BillTotalAtInsert(water, elec, rent),
     due_date |-> due, slip_path |-> Null, payment_state |-> "unpaid",
     paid_date |-> Null]

\* The rows matched by DELETE FROM bills WHERE bill_id = ?
BillsMatching(id) == {b \in DOMAIN bills : b = id}

\* A cascade that empties payment_history.
CascadeHistoryAll(gone) == <<>>

\* The store deletes the payment_history rows of a deleted bill with it.
CascadeHistory(gone) ==
    SelectSeq(payment_history, LAMBDA h : h.bill_id \notin gone)

-----------------------------------------------------------------------------
(* Bill request slots *)

IdleB == [op |-> "none", pc |-> "idle", bill |-> 0, user_id |-> 0,
          room |-> Null, rent |-> 0, amount |-> 0,
          slip_path |-> Undef, payment_state |-> Undef, paid_date |-> Undef,
          water_units |-> UndefNum, electricity_units |-> UndefNum,
          due_date |-> Undef, resp |-> "none", failpc |-> Null,
          conc |-> FALSE, state0 |-> Null, hist0 |-> 0, body |-> NoBody]

InFlightB(s) == breq[s].pc \notin {"idle", "done"}
FreeB(s) == ~InFlightB(s)

\* History bookkeeping when slot s accepts a bill request.
ArriveB(s, rec) ==
    LET others == {q \in Slots \ {s} : InFlightB(q)} IN
    /\ breq' = [q \in Slots |->
                  IF q = s THEN [rec EXCEPT !.conc = (others # {})]
                  ELSE IF q \in others THEN [breq[q] EXCEPT !.conc = TRUE]
                  ELSE breq[q]]
    /\ snap' = IF others = {} THEN SnapNow(s, "bill") ELSE NoSnap

RespondB(s, r) == breq' = [breq EXCEPT ![s].pc = "done", ![s].resp = r]
GotoB(s, pc) == breq' = [breq EXCEPT ![s].pc = pc]

-----------------------------------------------------------------------------
(* POST /api/bills *)

PendingBillInserts ==
    Cardinality({q \in Slots : breq[q].op = "create" /\ InFlightB(q)})

StartCreateBill(s, uid, room, water, elec, due) ==
    /\ FreeB(s)
    /\ nextBillId + PendingBillInserts <= MaxBills
    /\ ArriveB(s, [IdleB EXCEPT !.op = "create", !.pc = "bill_rent",
                                !.user_id = uid, !.room = room,
                                !.water_units = water,
                                !.electricity_units = elec, !.due_date = due])
    /\ UNCHANGED <<tenancyVars, rreq, bills, nextBillId, payment_history, storeFailed, serverVars>>

\* 1) SELECT rent FROM rooms WHERE room_number = ?
CreateBillRent(s) ==
    /\ breq[s].pc = "bill_rent"
    /\ IF RoomsNumbered(breq[s].room) = {}
       THEN RespondB(s, "room_not_found")
       ELSE breq' = [breq EXCEPT ![s].rent = RentOf(breq[s].room),
                                 ![s].pc = "bill_insert"]
    /\ UNCHANGED <<tenancyVars, rreq, bills, nextBillId, payment_history, snap, storeFailed, serverVars>>

\* 2) INSERT INTO bills (user_id, room_number, water_units, electricity_units,
\*    water_rate, electricity_rate, rent_amount, due_date, meter) VALUES (...)
\*    payment_state, slip_path and paid_date take their column defaults.
CreateBillInsert(s) ==
    /\ breq[s].pc = "bill_insert"
    /\ bills' = bills @@ (nextBillId :>
           NewBillRow(breq[s].user_id, breq[s].room, breq[s].water_units,
                      breq[s].electricity_units, breq[s].rent, breq[s].due_date))
    /\ nextBillId' = nextBillId + 1
    /\ breq' = [breq EXCEPT ![s].bill = nextBillId, ![s].pc = "done",
                            ![s].resp = "created"]
    /\ UNCHANGED <<tenancyVars, rreq, payment_history, snap, storeFailed, serverVars>>

-----------------------------------------------------------------------------
(* PUT /api/bills/:id *)

PendingPuts == Cardinality({q \in Slots : breq[q].op = "put" /\ InFlightB(q)})

StartPutBill(s, id, body) ==
    /\ FreeB(s)
    /\ Len(payment_history) + PendingPuts < MaxHistory
    /\ ArriveB(s, [IdleB EXCEPT
           !.op = "put", !.pc = "put_select", !.bill = id,
           !.slip_path = body.slip_path,
           !.payment_state = body.payment_state,
           !.paid_date = body.paid_date,
           !.water_units = body.water_units,
           !.electricity_units = body.electricity_units,
           !.due_date = body.due_date,
           !.body = body,
           !.state0 = IF id \in DOMAIN bills THEN bills[id].payment_state ELSE Null,
           !.hist0 = Cardinality({i \in 1..Len(payment_history) :
                                      payment_history[i].bill_id = id})])
    /\ UNCHANGED <<tenancyVars, rreq, bills, nextBillId, payment_history, storeFailed, serverVars>>

\* Mutant of Merge: the value of the body is written, present or not.
MergeAlwaysNew(new, old) == new

\* x !== undefined ? x : oldBill.x
Merge(new, old) == IF new # Undef THEN new ELSE old
MergeNum(new, old) == IF new # UndefNum THEN new ELSE old

\* 1) SELECT * FROM bills WHERE bill_id = ?   2) merge the body over the row
PutSelect(s) ==
    /\ breq[s].pc = "put_select"
    /\ IF breq[s].bill \notin DOMAIN bills
       THEN RespondB(s, "not_found")
       ELSE LET oldBill == bills[breq[s].bill] IN
            breq' = [breq EXCEPT
               ![s].slip_path = Merge(breq[s].slip_path, oldBill.slip_path),
               ![s].payment_state = Merge(breq[s].payment_state, oldBill.payment_state),
               ![s].paid_date = Merge(breq[s].paid_date, oldBill.paid_date),
               ![s].water_units = MergeNum(breq[s].water_units, oldBill.water_units),
               ![s].electricity_units =
                   MergeNum(breq[s].electricity_units, oldBill.electricity_units),
               ![s].due_date = Merge(breq[s].due_date, oldBill.due_date),
               ![s].pc = "put_update"]
    /\ UNCHANGED <<tenancyVars, rreq, bills, nextBillId, payment_history, snap, storeFailed, serverVars>>

\* if (newPaymentState === "paid")
RecordsPayment(newPaymentState) == newPaymentState = "paid"

\* 3) UPDATE bills SET slip_path = ?, payment_state = ?, paid_date = ?,
\*    water_units = ?, electricity_units = ?, due_date = ? WHERE bill_id = ?
PutUpdate(s) ==
    /\ breq[s].pc = "put_update"
    /\ IF breq[s].bill \notin DOMAIN bills
       THEN RespondB(s, "not_found") /\ UNCHANGED bills
       ELSE /\ bills' = [bills EXCEPT ![breq[s].bill] =
                  [@ EXCEPT !.slip_path = breq[s].slip_path,
                            !.payment_state = breq[s].payment_state,
                            !.paid_date = breq[s].paid_date,
                            !.water_units = breq[s].water_units,
                            !.electricity_units = breq[s].electricity_units,
                            !.due_date = breq[s].due_date]]
            /\ IF RecordsPayment(breq[s].payment_state)
               THEN GotoB(s, "put_total")
               ELSE RespondB(s, "ok")
    /\ UNCHANGED <<tenancyVars, rreq, nextBillId, payment_history, snap, storeFailed, serverVars>>

\* SELECT total_amount FROM bills WHERE bill_id = ?
PutTotal(s) ==
    /\ breq[s].pc = "put_total"
    /\ IF breq[s].bill \notin DOMAIN bills
       THEN RespondB(s, "not_found")
       ELSE breq' = [breq EXCEPT ![s].amount = bills[breq[s].bill].total_amount,
                                 ![s].pc = "put_history"]
    /\ UNCHANGED <<tenancyVars, rreq, bills, nextBillId, payment_history, snap, storeFailed, serverVars>>

\* Mutant of PaymentDate: the date of the request is ignored.
PaymentDateToday(newPaidDate) == Today

\* newPaidDate || new Date().toISOString().split("T")[0]
PaymentDate(newPaidDate) ==
    IF newPaidDate \in {Null, ""} THEN Today ELSE newPaidDate

\* INSERT INTO payment_history (bill_id, amount_paid, payment_date, slip_path,
\* created_at) VALUES (?, ?, ?, ?, NOW())
\* When the bill is gone by now (deleted by another request since the
\* handler read its total), the outcome depends on how the store declares
\* the cascade, which no file of src/ says: a store that enforces the
\* reference rejects the row, pool.query throws and the catch answers 500;
\* a store that does not enforce it takes the row.
PutHistory(s) ==
    /\ breq[s].pc = "put_history"
    /\ \E enforced \in BOOLEAN :
          IF enforced /\ breq[s].bill \notin DOMAIN bills
          THEN /\ breq' = [breq EXCEPT ![s].pc = "done", ![s].resp = "error",
                                       ![s].failpc = breq[s].pc]
               /\ UNCHANGED payment_history
          ELSE /\ payment_history' = Append(payment_history,
                      [bill_id |-> breq[s].bill,
                       amount_paid |-> breq[s].amount,
                       payment_date |-> PaymentDate(breq[s].paid_date),
                       slip_path |-> breq[s].slip_path])
               /\ RespondB(s, "ok")
    /\ UNCHANGED <<tenancyVars, rreq, bills, nextBillId, snap, storeFailed, serverVars>>

-----------------------------------------------------------------------------
(* DELETE /api/bills/:id *)

\* The characters parseInt skips at the start of its argument: the white
\* space and the line terminators of the language (tab, line feed, vertical
\* tab, form feed, carriage return, space, no-break space, the space
\* separators, line and paragraph separator, byte order mark).
WhiteSpace ==
    {9, 10, 11, 12, 13, 32, 160, 5760, 8232, 8233, 8239, 8287, 12288, 65279}
        \cup 8192..8202

\* The value of a decimal digit; -1 for any other character.
DigitOf(c) == IF c \in 48..57 THEN c - 48 ELSE -1

\* The number of white space characters a segment starts with.
LeadingBlanks(cs) ==
    Cardinality({k \in 1..Len(cs) : \A j \in 1..k : cs[j] \in WhiteSpace})

\* The length of the longest prefix of digits of a sequence of characters.
DigitPrefix(cs) ==
    Cardinality({k \in 1..Len(cs) : \A j \in 1..k : DigitOf(cs[j]) >= 0})

RECURSIVE Decimal(_, _)
Decimal(cs, k) == IF k = 0 THEN 0 ELSE 10 * Decimal(cs, k - 1) + DigitOf(cs[k])

Number(n) == [nan |-> FALSE, num |-> n]

isNaN(v) == v.nan

\* parseInt(id, 10): leading white space is skipped, one sign is read, then
\* the longest run of digits; what follows the digits is ignored, and NaN is
\* the result when no digit is read.
ParseInt(cs) ==
    LET rest == SubSeq(cs, LeadingBlanks(cs) + 1, Len(cs))
        signed == rest # <<>> /\ rest[1] \in {43, 45}
        sign == IF signed /\ rest[1] = 45 THEN -1 ELSE 1
        digits == IF signed THEN Tail(rest) ELSE rest
    IN  IF DigitPrefix(digits) = 0
        THEN NaN
        ELSE Number(sign * Decimal(digits, DigitPrefix(digits)))

\* The path segment that writes the id n in decimal.
RECURSIVE Path(_)
Path(n) == IF n < 10 THEN <<48 + n>> ELSE Append(Path(n \div 10), 48 + (n % 10))

\* const billId = parseInt(id, 10);  if (isNaN(billId)) -> 400
StartDeleteBill(s, id) ==
    /\ FreeB(s)
    /\ LET billId == ParseInt(id) IN
       IF isNaN(billId)
       THEN ArriveB(s, [IdleB EXCEPT !.op = "delete", !.pc = "done",
                                     !.resp = "invalid"])
       ELSE ArriveB(s, [IdleB EXCEPT !.op = "delete", !.pc = "bdel_row",
                                     !.bill = billId.num])
    /\ UNCHANGED <<tenancyVars, rreq, bills, nextBillId, payment_history, storeFailed, serverVars>>

\* Mutant of DelBillRow: the handler also marks the rooms of the deleted
\* bills 'available'.
DelBillRowFreesRoom(s) ==
    /\ breq[s].pc = "bdel_row"
    /\ LET gone == BillsMatching(breq[s].bill) IN
       IF gone = {}
       THEN RespondB(s, "not_found") /\ UNCHANGED <<bills, payment_history, rooms>>
       ELSE /\ bills' = [b \in DOMAIN bills \ gone |-> bills[b]]
            /\ payment_history' = CascadeHistory(gone)
            /\ rooms' = [i \in DOMAIN rooms |->
                  IF \E b \in gone : bills[b].room_number = rooms[i].room_number
                  THEN [rooms[i] EXCEPT !.status = "available"]
                  ELSE rooms[i]]
            /\ RespondB(s, "ok")
    /\ UNCHANGED <<users, nextUserId, treq, rreq, nextBillId, snap, storeFailed, serverVars>>

\* DELETE FROM bills WHERE bill_id = ?     affectedRows === 0 -> 404
DelBillRow(s) ==
    /\ breq[s].pc = "bdel_row"
    /\ LET gone == BillsMatching(breq[s].bill) IN
       IF gone = {}
       THEN RespondB(s, "not_found") /\ UNCHANGED <<bills, payment_history>>
       ELSE /\ bills' = [b \in DOMAIN bills \ gone |-> bills[b]]
            /\ payment_history' = CascadeHistory(gone)
            /\ RespondB(s, "ok")
    /\ UNCHANGED <<tenancyVars, rreq, nextBillId, snap, storeFailed, serverVars>>

\* A statement of a bill handler is rejected by the store: pool.query
\* throws, the statement has no effect, and the handler's catch answers 500.
BillQueryFails(s) ==
    /\ InFlightB(s)
    /\ breq' = [breq EXCEPT ![s].pc = "done", ![s].resp = "error",
                            ![s].failpc = breq[s].pc]
    /\ storeFailed' = TRUE
    /\ UNCHANGED <<tenancyVars, rreq, bills, nextBillId, payment_history, snap, serverVars>>

-----------------------------------------------------------------------------
(* Room request slots *)

IdleR == [op |-> "none", pc |-> "idle", room_id |-> 0, room_number |-> Null,
          rent |-> 0, status |-> Undef, resp |-> "none", conc |-> FALSE,
          conn |-> "none"]

InFlightR(s) == rreq[s].pc \notin {"idle", "done"}
FreeR(s) == ~InFlightR(s)

\* History bookkeeping when slot s accepts a room request.
ArriveR(s, rec) ==
    LET others == {q \in Slots \ {s} : InFlightR(q)} IN
    /\ rreq' = [q \in Slots |->
                  IF q = s THEN [rec EXCEPT !.conc = (others # {})]
                  ELSE IF q \in others THEN [rreq[q] EXCEPT !.conc = TRUE]
                  ELSE rreq[q]]
    /\ snap' = IF others = {} THEN SnapNow(s, "room") ELSE NoSnap

RespondR(s, r) == rreq' = [rreq EXCEPT ![s].pc = "done", ![s].resp = r]
GotoR(s, pc) == rreq' = [rreq EXCEPT ![s].pc = pc]

-----------------------------------------------------------------------------
(* PUT /api/rooms/:room_id *)

\* Without the UNIQUE key on rooms.room_number no statement is refused.
DupRoomNumberNever(n, id) == FALSE

\* The UNIQUE key on rooms.room_number: the row (id = 0: a new row) would
\* collide with another row and the statement raises ER_DUP_ENTRY.
DupRoomNumber(n, id) ==
    \E i \in DOMAIN rooms : i # id /\ rooms[i].room_number = n

\* status || "available"
StatusOrAvailable(status) ==
    IF status \in {Undef, Null, ""} THEN "available" ELSE status

\* SELECT * FROM rooms WHERE room_number = ? AND room_id != ?
RoomsNumberedExcept(n, id) ==
    {i \in DOMAIN rooms : rooms[i].room_number = n /\ i # id}

\* if (!room_number || !rent) -> 400;  parsedRent < 0 || parsedRent > maxRent -> 400
StartPutRoom(s, id, number, rent, status) ==
    /\ FreeR(s)
    /\ LET rec == [IdleR EXCEPT !.op = "put", !.room_id = id,
                                !.room_number = number, !.rent = rent,
                                !.status = status] IN
       IF number = "" \/ rent = 0 \/ rent < 0 \/ rent > maxRent
       THEN ArriveR(s, [rec EXCEPT !.pc = "done", !.resp = "invalid"])
       ELSE ArriveR(s, [rec EXCEPT !.pc = "room_exists"])
    /\ UNCHANGED <<tenancyVars, billingVars, storeFailed, serverVars>>

\* SELECT * FROM rooms WHERE room_id = ?
PutRoomExists(s) ==
    /\ rreq[s].pc = "room_exists"
    /\ IF rreq[s].room_id \notin DOMAIN rooms
       THEN RespondR(s, "not_found")
       ELSE GotoR(s, "room_dup")
    /\ UNCHANGED <<tenancyVars, billingVars, snap, storeFailed, serverVars>>

\* SELECT * FROM rooms WHERE room_number = ? AND room_id != ?
PutRoomDuplicate(s) ==
    /\ rreq[s].pc = "room_dup"
    /\ IF RoomsNumberedExcept(rreq[s].room_number, rreq[s].room_id) # {}
       THEN RespondR(s, "dup_room")
       ELSE GotoR(s, "room_update")
    /\ UNCHANGED <<tenancyVars, billingVars, snap, storeFailed, serverVars>>

\* UPDATE rooms SET room_number = ?, rent = ?, description = ?, status = ?
\* WHERE room_id = ?      (status || "available"; the result is not inspected;
\* ER_DUP_ENTRY falls into the catch, 500)
PutRoomRow(s) ==
    /\ rreq[s].pc = "room_update"
    /\ IF /\ rreq[s].room_id \in DOMAIN rooms
          /\ DupRoomNumber(rreq[s].room_number, rreq[s].room_id)
       THEN RespondR(s, "error") /\ UNCHANGED rooms
       ELSE /\ rooms' = [i \in DOMAIN rooms |->
                           IF i = rreq[s].room_id
                           THEN [room_number |-> rreq[s].room_number,
                                 rent |-> rreq[s].rent,
                                 status |-> StatusOrAvailable(rreq[s].status)]
                           ELSE rooms[i]]
            /\ RespondR(s, "ok")
    /\ UNCHANGED <<users, nextUserId, treq, billingVars, snap, storeFailed, serverVars>>

-----------------------------------------------------------------------------
(* DELETE /api/rooms/:room_id *)

StartDeleteRoom(s, id) ==
    /\ FreeR(s)
    /\ ArriveR(s, [IdleR EXCEPT !.op = "delete", !.room_id = id,
                                !.pc = "room_delete"])
    /\ UNCHANGED <<tenancyVars, billingVars, storeFailed, serverVars>>

\* DELETE FROM rooms WHERE room_id = ?     affectedRows === 0 -> 404
DelRoomRow(s) ==
    /\ rreq[s].pc = "room_delete"
    /\ IF rreq[s].room_id \notin DOMAIN rooms
       THEN RespondR(s, "not_found") /\ UNCHANGED rooms
       ELSE /\ rooms' = [i \in DOMAIN rooms \ {rreq[s].room_id} |-> rooms[i]]
            /\ RespondR(s, "ok")
    /\ UNCHANGED <<users, nextUserId, treq, billingVars, snap, storeFailed, serverVars>>

\* A statement of a room handler is rejected by the store: pool.query
\* throws, the statement has no effect, and the handler's catch answers 500.
RoomQueryFails(s) ==
    /\ InFlightR(s)
    /\ rreq' = [rreq EXCEPT ![s].pc = "done", ![s].resp = "error"]
    /\ storeFailed' = TRUE
    /\ UNCHANGED <<tenancyVars, billingVars, snap, serverVars>>

-----------------------------------------------------------------------------
(* POST /api/rooms *)

\* Room requests that have passed the duplicate check and not yet inserted.
PendingRoomInserts ==
    Cardinality({s \in Slots : rreq[s].op = "post" /\ InFlightR(s)})

\* if (!room_number || !rent) -> 400;  parsedRent < 0 || parsedRent > maxRent -> 400
StartPostRoom(s, number, rent, status) ==
    /\ FreeR(s)
    /\ nextRoomId + PendingRoomInserts <= MaxRooms
    /\ LET rec == [IdleR EXCEPT !.op = "post", !.room_number = number,
                                !.rent = rent, !.status = status] IN
       IF number = "" \/ rent = 0 \/ rent < 0 \/ rent > maxRent
       THEN ArriveR(s, [rec EXCEPT !.pc = "done", !.resp = "invalid"])
       ELSE ArriveR(s, [rec EXCEPT !.pc = "post_existing"])
    /\ UNCHANGED <<tenancyVars, billingVars, storeFailed, serverVars>>

\* SELECT * FROM rooms WHERE room_number = ?     existingRoom.length > 0 -> 400
PostRoomExisting(s) ==
    /\ rreq[s].pc = "post_existing"
    /\ IF RoomsNumbered(rreq[s].room_number) # {}
       THEN RespondR(s, "dup_room")
       ELSE GotoR(s, "post_insert")
    /\ UNCHANGED <<tenancyVars, billingVars, snap, storeFailed, serverVars>>

\* INSERT INTO rooms (room_number, rent, description, status) VALUES (?, ?, ?, ?)
\* ER_DUP_ENTRY falls into the catch (500).
PostRoomInsert(s) ==
    /\ rreq[s].pc = "post_insert"
    /\ IF DupRoomNumber(rreq[s].room_number, 0)
       THEN RespondR(s, "error") /\ UNCHANGED <<rooms, nextRoomId>>
       ELSE /\ rooms' = (nextRoomId :>
                           [room_number |-> rreq[s].room_number,
                            rent |-> rreq[s].rent,
                            status |-> StatusOrAvailable(rreq[s].status)])
                        @@ rooms
            /\ nextRoomId' = nextRoomId + 1
            /\ rreq' = [rreq EXCEPT ![s].pc = "done", ![s].resp = "created",
                                    ![s].room_id = nextRoomId]
    /\ UNCHANGED <<users, nextUserId, treq, billingVars, snap, storeFailed,
                   freeConnections, probe>>

-----------------------------------------------------------------------------
(* The liveness probe: setInterval(async () => { ... }, 5 * 60 * 1000) *)

IdleProbe == [getting |-> 0, pinging |-> 0, log |-> "none"]

\* The timer fires and a callback starts: pool.getConnection() is called.
\* setInterval does not wait for the callbacks of earlier ticks.
ProbeTick ==
    /\ probe.getting + probe.pinging < MaxProbes
    /\ probe' = [probe EXCEPT !.getting = @ + 1]
    /\ UNCHANGED <<tenancyVars, billingVars, rreq, snap, storeFailed, nextRoomId,
                   freeConnections>>

\* const connection = await pool.getConnection();
\* The callback waits while every connection is checked out
\* (waitForConnections: true); a store that cannot be reached makes
\* getConnection throw, with no connection taken.
ProbeGetConnection ==
    /\ probe.getting > 0
    /\ \E reached \in BOOLEAN :
         IF reached
         THEN /\ freeConnections > 0
              /\ freeConnections' = freeConnections - 1
              /\ probe' = [probe EXCEPT !.getting = @ - 1, !.pinging = @ + 1]
         ELSE /\ probe' = [probe EXCEPT !.getting = @ - 1, !.log = "failed"]
              /\ UNCHANGED freeConnections
    /\ UNCHANGED <<tenancyVars, billingVars, rreq, snap, storeFailed, nextRoomId>>

\* await connection.ping();  console.log(...);  connection.release();
ProbePing ==
    /\ probe.pinging > 0
    /\ freeConnections' = freeConnections + 1
    /\ probe' = [probe EXCEPT !.pinging = @ - 1, !.log = "success"]
    /\ UNCHANGED <<tenancyVars, billingVars, rreq, snap, storeFailed, nextRoomId>>

\* await connection.ping() throws: catch (err) { console.error(...) }, and
\* connection.release() is skipped.  When the error is fatal to the
\* connection the pool discards the connection and frees its place; when the
\* store answers the ping with an error the connection stays checked out.
ProbePingFails ==
    /\ probe.pinging > 0
    /\ \E fatal \in BOOLEAN :
         freeConnections' = IF fatal THEN freeConnections + 1 ELSE freeConnections
    /\ probe' = [probe EXCEPT !.pinging = @ - 1, !.log = "failed"]
    /\ UNCHANGED <<tenancyVars, billingVars, rreq, snap, storeFailed, nextRoomId>>

-----------------------------------------------------------------------------
(* pool.query of a room request: a connection is checked out, the statement
   runs on it, and the connection is given back *)

\* The pool hands a free connection to the statement the request is at; the
\* request waits while none is free (waitForConnections: true).
PoolCheckout(s) ==
    /\ InFlightR(s)
    /\ rreq[s].conn = "none"
    /\ freeConnections > 0
    /\ freeConnections' = freeConnections - 1
    /\ rreq' = [rreq EXCEPT ![s].conn = rreq[s].pc]
    /\ UNCHANGED <<tenancyVars, billingVars, snap, storeFailed, nextRoomId, probe>>

\* The statement has run: the pool takes the connection back.
PoolRelease(s) ==
    /\ rreq[s].conn \notin {"none", rreq[s].pc}
    /\ freeConnections' = freeConnections + 1
    /\ rreq' = [rreq EXCEPT ![s].conn = "none"]
    /\ UNCHANGED <<tenancyVars, billingVars, snap, storeFailed, nextRoomId, probe>>

-----------------------------------------------------------------------------
(* Initial state: an empty database into which the rooms of RoomNumbers
   have been entered (POST /api/rooms without a status: 'available'). *)

InitRooms ==
    (1 :> [room_number |-> "101", rent |-> 2500, status |-> "available"]) @@
    (2 :> [room_number |-> "102", rent |-> 3000, status |-> "available"])

Init ==
    /\ rooms = InitRooms
    /\ users = EmptyTable
    /\ nextUserId = 1
    /\ bills = EmptyTable
    /\ nextBillId = 1
    /\ payment_history = <<>>
    /\ treq = [s \in Slots |-> IdleT]
    /\ breq = [s \in Slots |-> IdleB]
    /\ rreq = [s \in Slots |-> IdleR]
    /\ snap = NoSnap
    /\ storeFailed = FALSE
    /\ nextRoomId = 3
    /\ freeConnections = connectionLimit
    /\ probe = IdleProbe

\* The statements of the requests in flight, none rejected by the store.
HandlerStep(s) ==
    \/ RegInUse(s)
    \/ RegExists(s)
    \/ RegInsert(s)
    \/ RegSetOccupied(s)
    \/ UpdCurrentUser(s)
    \/ UpdRoomOccupied(s)
    \/ UpdReleaseOld(s)
    \/ UpdRoomExists(s)
    \/ UpdInsertRoom(s)
    \/ UpdClaimNew(s)
    \/ UpdUserRow(s)
    \/ DelSelectUser(s)
    \/ DelUserRow(s)
    \/ DelReleaseRoom(s)

\* The statements of the requests in flight.
TenantStep(s) ==
    \/ HandlerStep(s)
    \/ TenantQueryFails(s)

\* Tenant requests served one at a time.
TenantNext ==
    \/ \E n \in UsernameInputs, l \in PasswordInputs,
          r \in RoomInputs \cup {Null}, ro \in RoleInputs :
            StartRegister("s1", n, l, r, ro)
    \/ \E u \in 1..MaxUsers, n \in UsernameInputs,
          r \in RoomInputs \cup {Null}, ro \in RoleInputs :
            StartUpdate("s1", u, n, r, ro)
    \/ \E u \in 1..MaxUsers : StartDelete("s1", u)
    \/ TenantStep("s1")

SpecTenancy == Init /\ [][TenantNext]_vars

\* A registration accepted while requests are served concurrently.
RaceRegister(s, username, room, role) ==
    /\ nextUserId + PendingInserts <= MaxRaceUsers
    /\ StartRegister(s, username, MinPasswordLen, room, role)

\* Tenant requests served concurrently, their statements interleaved.
RaceNext ==
    \E s \in Slots :
        \/ \E n \in Usernames, r \in RaceRoomInputs, ro \in RoleInputs :
              RaceRegister(s, n, r, ro)
        \/ \E u \in 1..MaxRaceUsers, n \in Usernames, r \in RaceRoomInputs,
              ro \in RoleInputs :
              StartUpdate(s, u, n, r, ro)
        \/ \E u \in 1..MaxRaceUsers : StartDelete(s, u)
        \/ HandlerStep(s)

SpecRace == Init /\ [][RaceNext]_vars

\* Registrations served concurrently, their statements interleaved.
RegisterNext ==
    \E s \in Slots :
        \/ \E n \in Usernames, r \in RoomInputs \cup {Null}, ro \in RoleInputs :
              RaceRegister(s, n, r, ro)
        \/ RegInUse(s)
        \/ RegExists(s)
        \/ RegInsert(s)
        \/ RegSetOccupied(s)

SpecRegister == Init /\ [][RegisterNext]_vars

\* The statements of the bill requests in flight.
BillStep(s) ==
    \/ CreateBillRent(s)
    \/ CreateBillInsert(s)
    \/ PutSelect(s)
    \/ PutUpdate(s)
    \/ PutTotal(s)
    \/ PutHistory(s)
    \/ BillQueryFails(s)

\* A bill request accepted while every body of a request is tried.
LedgerCreateBill(s, uid, room, water, elec, due) ==
    /\ nextBillId + PendingBillInserts <= MaxLedgerBills
    /\ StartCreateBill(s, uid, room, water, elec, due)

\* Bill requests served one at a time.
BillingNext ==
    \/ \E u \in BillUserInputs, r \in BillRoomInputs, w \in WaterInputs,
          e \in ElectricityInputs, d \in DueDateInputs :
            LedgerCreateBill("s1", u, r, w, e, d)
    \/ \E b \in 1..MaxLedgerBills + 1, body \in PutBillInputs :
            StartPutBill("s1", b, body)
    \/ \E b \in 1..MaxLedgerBills + 1 : StartDeleteBill("s1", Path(b))
    \/ DelBillRow("s1")
    \/ BillStep("s1")

SpecBilling == Init /\ [][BillingNext]_vars

\* Bill requests served concurrently, their statements interleaved.
BillRaceNext ==
    \E s \in Slots :
        \/ \E u \in BillUserInputs, r \in RaceBillRoomInputs, w \in RaceWaterInputs,
              e \in ElectricityInputs, d \in DueDateInputs :
                LedgerCreateBill(s, u, r, w, e, d)
        \/ \E b \in 1..MaxLedgerBills, body \in RacePutBillInputs :
                StartPutBill(s, b, body)
        \/ BillStep(s)

SpecBillRace == Init /\ [][BillRaceNext]_vars

\* Bills are paid and deleted concurrently, the statements interleaved.
BillDeleteNext ==
    \E s \in Slots :
        \/ \E u \in BillUserInputs, w \in RaceWaterInputs, e \in ElectricityInputs,
              d \in DueDateInputs :
                LedgerCreateBill(s, u, "101", w, e, d)
        \/ \E b \in 1..MaxLedgerBills, body \in PayingBodies :
                StartPutBill(s, b, body)
        \/ \E p \in {Path(b) : b \in 1..MaxLedgerBills + 1}
                     \cup BadBillPaths \cup SignedBillPaths :
                StartDeleteBill(s, p)
        \/ CreateBillRent(s)
        \/ CreateBillInsert(s)
        \/ PutSelect(s)
        \/ PutUpdate(s)
        \/ PutTotal(s)
        \/ PutHistory(s)
        \/ DelBillRow(s)

SpecBillDelete == Init /\ [][BillDeleteNext]_vars

\* Two bills of one room, updated one request at a time with every body.
FrameNext ==
    \/ \E u \in BillUserInputs, w \in RaceWaterInputs, e \in ElectricityInputs,
          d \in DueDateInputs :
            StartCreateBill("s1", u, "101", w, e, d)
    \/ \E b \in 1..MaxBills + 1, body \in FramePutBillInputs :
            StartPutBill("s1", b, body)
    \/ CreateBillRent("s1")
    \/ CreateBillInsert("s1")
    \/ PutSelect("s1")
    \/ PutUpdate("s1")
    \/ PutTotal("s1")
    \/ PutHistory("s1")

SpecFrame == Init /\ [][FrameNext]_vars

\* The statements of the room requests in flight.
RoomStep(s) ==
    \/ PutRoomExists(s)
    \/ PutRoomDuplicate(s)
    \/ PutRoomRow(s)
    \/ DelRoomRow(s)
    \/ RoomQueryFails(s)

\* No request of any kind is in flight.
AllQuiet == \A s \in Slots : ~InFlightT(s) /\ ~InFlightB(s) /\ ~InFlightR(s)

\* Requests accepted one at a time, whatever their kind.
NextCreateBill(s, uid, room, water, elec, due) ==
    AllQuiet /\ StartCreateBill(s, uid, room, water, elec, due)
NextPutRoom(s, id, number, rent, status) ==
    AllQuiet /\ StartPutRoom(s, id, number, rent, status)
NextDeleteRoom(s, id) ==
    AllQuiet /\ StartDeleteRoom(s, id)

\* Bills are created while the rooms are edited and deleted, the requests
\* served one at a time.
RentNext ==
    \/ \E u \in BillUserInputs, r \in BillRoomInputs, w \in RaceWaterInputs,
          e \in ElectricityInputs, d \in DueDateInputs :
            NextCreateBill("s1", u, r, w, e, d)
    \/ CreateBillRent("s1")
    \/ CreateBillInsert("s1")
    \/ \E i \in RoomIdInputs, n \in RoomNumberInputs, r \in RentInputs :
            NextPutRoom("s1", i, n, r, Undef)
    \/ \E i \in RoomIdInputs : NextDeleteRoom("s1", i)
    \/ RoomStep("s1")

SpecRent == Init /\ [][RentNext]_vars

\* The statements of the room-creating requests in flight.
CreateRoomStep(s) ==
    \/ PostRoomExisting(s)
    \/ PostRoomInsert(s)
    \/ RoomQueryFails(s)

NextPostRoom(s, number, rent, status) ==
    AllQuiet /\ StartPostRoom(s, number, rent, status)
NextRegister(s, username, pwlen, room, role) ==
    AllQuiet /\ StartRegister(s, username, pwlen, room, role)

\* The statements of the registrations in flight.
RegisterStep(s) ==
    \/ RegInUse(s)
    \/ RegExists(s)
    \/ RegInsert(s)
    \/ RegSetOccupied(s)

\* Rooms are created, edited with every status and deleted while a tenant
\* registers, the requests served one at a time.
EstateNext ==
    \/ \E n \in EstateRoomInputs : NextRegister("s1", "alice", MinPasswordLen, n, Undef)
    \/ RegisterStep("s1")
    \/ \E n \in EstateRoomInputs, r \in RentInputs, st \in StatusInputs :
            NextPostRoom("s1", n, r, st)
    \/ CreateRoomStep("s1")
    \/ \E i \in EstateRoomIdInputs, n \in EstateRoomInputs, st \in StatusInputs :
            NextPutRoom("s1", i, n, 3500, st)
    \/ \E i \in EstateRoomIdInputs : NextDeleteRoom("s1", i)
    \/ RoomStep("s1")

SpecEstate == Init /\ [][EstateNext]_vars

NextPutBill(s, id, body) == AllQuiet /\ StartPutBill(s, id, body)
NextDeleteBill(s, id) == AllQuiet /\ StartDeleteBill(s, id)
NextDelete(s, uid) == AllQuiet /\ StartDelete(s, uid)

\* The statements of the tenant deletions in flight.
DeleteStep(s) ==
    \/ DelSelectUser(s)
    \/ DelUserRow(s)
    \/ DelReleaseRoom(s)

HouseRegister(s, username, pwlen, room, role) ==
    /\ nextUserId <= MaxHouseUsers
    /\ NextRegister(s, username, pwlen, room, role)

\* A tenant comes and goes, bills are created, paid and deleted, and the
\* tenant's room is edited and deleted, the requests served one at a time
\* and no statement rejected by the store.
HouseNext ==
    \/ HouseRegister("s1", "alice", MinPasswordLen, "101", Undef)
    \/ RegisterStep("s1")
    \/ NextDelete("s1", 1)
    \/ DeleteStep("s1")
    \/ \E w \in RaceWaterInputs, e \in ElectricityInputs, d \in DueDateInputs :
            NextCreateBill("s1", 1, "101", w, e, d)
    \/ CreateBillRent("s1")
    \/ CreateBillInsert("s1")
    \/ \E b \in 1..MaxBills : NextPutBill("s1", b, PaidBody)
    \/ PutSelect("s1")
    \/ PutUpdate("s1")
    \/ PutTotal("s1")
    \/ PutHistory("s1")
    \/ \E b \in 1..MaxBills : NextDeleteBill("s1", Path(b))
    \/ DelBillRow("s1")
    \/ NextPutRoom("s1", 1, "101", 3500, Undef)
    \/ NextDeleteRoom("s1", 1)
    \/ PutRoomExists("s1")
    \/ PutRoomDuplicate("s1")
    \/ PutRoomRow("s1")
    \/ DelRoomRow("s1")

SpecHouse == Init /\ [][HouseNext]_vars

NextUpdate(s, uid, username, room, role) ==
    AllQuiet /\ StartUpdate(s, uid, username, room, role)

\* The statements of the tenant updates in flight.
UpdateStep(s) ==
    \/ UpdCurrentUser(s)
    \/ UpdRoomOccupied(s)
    \/ UpdReleaseOld(s)
    \/ UpdRoomExists(s)
    \/ UpdInsertRoom(s)
    \/ UpdClaimNew(s)
    \/ UpdUserRow(s)

\* Tenants register and are updated with and without a role, the requests
\* served one at a time.
RoleNext ==
    \/ \E n \in Usernames, r \in RoomInputs, ro \in RoleBodies :
            NextRegister("s1", n, MinPasswordLen, r, ro)
    \/ RegisterStep("s1")
    \/ \E u \in 1..MaxRaceUsers, n \in Usernames, r \in RoomInputs,
          ro \in RoleBodies :
            NextUpdate("s1", u, n, r, ro)
    \/ UpdateStep("s1")

SpecRole == Init /\ [][RoleNext]_vars

\* A bill is paid by one request while another edits its usage, the
\* statements interleaved; no body carries 'unpaid'.
PayRaceNext ==
    \E s \in Slots :
        \/ \E w \in RaceWaterInputs, e \in ElectricityInputs, d \in DueDateInputs :
                LedgerCreateBill(s, 1, "101", w, e, d)
        \/ CreateBillRent(s)
        \/ CreateBillInsert(s)
        \/ \E b \in 1..MaxLedgerBills, body \in {PaidBody, UsageBody} :
                StartPutBill(s, b, body)
        \/ PutSelect(s)
        \/ PutUpdate(s)
        \/ PutTotal(s)
        \/ PutHistory(s)

SpecPayRace == Init /\ [][PayRaceNext]_vars

\* The statement the request is at runs on the connection checked out for
\* it, and the handler reacts to its result.
PoolQuery(s) ==
    /\ rreq[s].conn = rreq[s].pc
    /\ \/ PostRoomExisting(s)
       \/ PostRoomInsert(s)
       \/ DelRoomRow(s)
       \/ RoomQueryFails(s)

\* A room request is accepted when the one before it has given its
\* connection back.
PoolPostRoom(s, number, rent, status) ==
    rreq[s].conn = "none" /\ NextPostRoom(s, number, rent, status)
PoolDeleteRoom(s, id) ==
    rreq[s].conn = "none" /\ NextDeleteRoom(s, id)

\* The liveness probe runs beside room requests.
ProbeNext ==
    \/ ProbeTick
    \/ ProbeGetConnection
    \/ ProbePing
    \/ ProbePingFails
    \/ \E n \in EstateRoomInputs : PoolPostRoom("s1", n, 3500, Undef)
    \/ \E i \in RaceRoomIdInputs : PoolDeleteRoom("s1", i)
    \/ PoolCheckout("s1")
    \/ PoolQuery("s1")
    \/ PoolRelease("s1")

SpecProbe == Init /\ [][ProbeNext]_vars

\* Rooms are created and renumbered by requests served concurrently, their
\* statements interleaved.
RoomRaceNext ==
    \E s \in Slots :
        \/ \E n \in EstateRoomInputs : StartPostRoom(s, n, 3500, Undef)
        \/ CreateRoomStep(s)
        \/ \E i \in RaceRoomIdInputs, n \in EstateRoomInputs :
              StartPutRoom(s, i, n, 3500, Undef)
        \/ PutRoomExists(s)
        \/ PutRoomDuplicate(s)
        \/ PutRoomRow(s)

SpecRoomRace == Init /\ [][RoomRaceNext]_vars

-----------------------------------------------------------------------------
(* Vocabulary of the properties below.  These read the tables directly and
   use none of the operators that model the server's statements. *)

\* The users whose room reference is room number n, in a users table.
Tenants(utbl, n) == {u \in DOMAIN utbl : utbl[u].room_number = n}

\* The stored statuses of the room rows numbered n, in a rooms table.
StatusOf(rtbl, n) ==
    {rtbl[i].status : i \in {j \in DOMAIN rtbl : rtbl[j].room_number = n}}

\* The payment_history rows of bill b.
HistoryRows(b) ==
    {i \in 1..Len(payment_history) : payment_history[i].bill_id = b}

\* No tenant request is in flight.
TenantsQuiet == \A s \in Slots : treq[s].pc \in {"idle", "done"}

\* Slot s holds a completed tenant request `op` that was served alone, and
\* snap holds the tables as they were when it arrived.
ServedAlone(s, op) ==
    /\ treq[s].pc = "done"
    /\ treq[s].op = op
    /\ ~treq[s].conc
    /\ snap.owner = s
    /\ snap.kind = "tenant"

\* Slot s holds a completed bill request `op` that was served alone.
BillServedAlone(s, op) ==
    /\ breq[s].pc = "done"
    /\ breq[s].op = op
    /\ ~breq[s].conc
    /\ snap.owner = s
    /\ snap.kind = "bill"

-----------------------------------------------------------------------------
(* C1.  After any sequence of completed register / update-user /
   delete-user requests, successful or not, a room's stored status is
   'occupied' if and only if exactly one user row references its number.
   Checked under SpecTenancy (requests served one at a time), on the
   behaviours in which the store rejects no statement. *)
C1_StatusIffOneTenant ==
    (TenantsQuiet /\ ~storeFailed) =>
        \A i \in DOMAIN rooms :
            (rooms[i].status = "occupied")
                <=> (Cardinality(Tenants(users, rooms[i].room_number)) = 1)

(* C2.  Two register requests for different usernames that both name the
   same existing vacant room and are served concurrently: exactly one is
   answered 'created', the other 'room occupied', and the room is not
   referenced by two users.  Checked under SpecRace. *)
C2_OneRegistrationWins ==
    \A p, q \in Slots :
        ( /\ p # q
          /\ treq[p].pc = "done" /\ treq[q].pc = "done"
          /\ treq[p].op = "register" /\ treq[q].op = "register"
          /\ treq[p].conc /\ treq[q].conc
          /\ treq[p].vac /\ treq[q].vac
          /\ treq[p].room = treq[q].room
          /\ treq[p].username # treq[q].username )
        => /\ {treq[p].resp, treq[q].resp} = {"created", "room_occupied"}
           /\ Cardinality(Tenants(users, treq[p].room)) <= 1

(* C3.  Under every interleaving of the statements of concurrent register,
   update-user and delete-user requests, once no request is in flight no
   room is referenced by two users and no room is 'occupied' while no user
   references it.  Checked under SpecRace. *)
C3_NoDoubleNoOrphan ==
    TenantsQuiet =>
        \A i \in DOMAIN rooms :
            LET n == rooms[i].room_number IN
            /\ Cardinality(Tenants(users, n)) <= 1
            /\ rooms[i].status = "occupied" => Tenants(users, n) # {}

(* C4.  A PUT /api/bills/:id whose resulting payment state is 'paid',
   applied to a bill that is already 'paid', inserts no payment_history
   row: the bill has as many rows afterwards as before.  Checked under
   SpecBilling, on the behaviours in which the store rejects no statement. *)
C4_PaidAgainAddsNoRecord ==
    \A s \in Slots :
        ( /\ BillServedAlone(s, "put")
          /\ ~storeFailed
          /\ breq[s].resp = "ok"
          /\ breq[s].state0 = "paid"
          /\ breq[s].payment_state = "paid" )
        => Cardinality(HistoryRows(breq[s].bill)) = breq[s].hist0

(* C5.  Two PUT /api/bills/:id requests that both set payment_state 'paid'
   on the same unpaid bill, served concurrently: after both complete the
   bill has exactly one payment_history row.  Checked under SpecBillRace. *)
C5_OneRecordPerTransition ==
    \A p, q \in Slots :
        ( /\ p # q
          /\ breq[p].pc = "done" /\ breq[q].pc = "done"
          /\ breq[p].op = "put" /\ breq[q].op = "put"
          /\ breq[p].bill = breq[q].bill
          /\ breq[p].conc /\ breq[q].conc
          /\ breq[p].resp = "ok" /\ breq[q].resp = "ok"
          /\ breq[p].state0 = "unpaid" /\ breq[q].state0 = "unpaid"
          /\ breq[p].hist0 = 0 /\ breq[q].hist0 = 0
          /\ breq[p].payment_state = "paid" /\ breq[q].payment_state = "paid" )
        => Cardinality(HistoryRows(breq[p].bill)) = 1

(* C6.  If the store fails after the bills UPDATE of a paid-transition has
   been issued and before the payment_history INSERT completes, the handler
   reports an error and neither change is committed: the bill is still
   'unpaid' and has no payment_history row.  Checked under SpecBilling. *)
C6_FailedPaymentRollsBack ==
    \A s \in Slots :
        ( /\ BillServedAlone(s, "put")
          /\ breq[s].state0 = "unpaid"
          /\ breq[s].hist0 = 0
          /\ breq[s].payment_state = "paid"
          /\ breq[s].failpc \in {"put_total", "put_history"} )
        => /\ breq[s].resp = "error"
           /\ bills[breq[s].bill].payment_state = "unpaid"
           /\ HistoryRows(breq[s].bill) = {}

(* C7.  If a step of a tenant room move in PUT /api/users/:user_id fails
   (the room release, the room claim or the user UPDATE, a duplicate
   username included), the old room's status, the new room's status and
   the user's room reference are as they were before the request.  Checked
   under SpecTenancy. *)
C7_FailedMoveRollsBack ==
    \A s \in Slots :
        ( /\ ServedAlone(s, "update")
          /\ treq[s].uid \in DOMAIN snap.users
          /\ snap.users[treq[s].uid].room_number \notin {Null, treq[s].room}
          /\ treq[s].failpc \in {"upd_release", "upd_claim", "upd_user"} )
        => LET old == snap.users[treq[s].uid].room_number IN
           /\ treq[s].resp = "error"
           /\ StatusOf(rooms, old) = StatusOf(snap.rooms, old)
           /\ StatusOf(rooms, treq[s].room) = StatusOf(snap.rooms, treq[s].room)
           /\ treq[s].uid \in DOMAIN users
           /\ users[treq[s].uid].room_number = old

(* C8.  PUT /api/users/:user_id naming a room_number that no room row has
   is answered 'room not found', creates no room row, and leaves the user's
   room reference and every room's status unchanged.  Checked under
   SpecTenancy, for the requests of a user who has a room, on the
   behaviours in which the store rejects no statement for a reason of its
   own. *)
C8_UnknownRoomRejected ==
    \A s \in Slots :
        ( /\ ServedAlone(s, "update")
          /\ ~storeFailed
          /\ treq[s].resp # "invalid"
          /\ treq[s].uid \in DOMAIN snap.users
          /\ snap.users[treq[s].uid].room_number # Null
          /\ StatusOf(snap.rooms, treq[s].room) = {} )
        => /\ treq[s].resp = "room_not_found"
           /\ rooms = snap.rooms
           /\ users = snap.users

(* C9.  PUT /api/users/:user_id by a user whose current room is R, with
   room_number = R (and a username no other user holds), succeeds, is never
   answered 'room occupied', and afterwards the user references R and R is
   'occupied'.  Checked under SpecTenancy, on the behaviours in which the
   store rejects no statement for a reason of its own. *)
C9_SelfMoveSucceeds ==
    \A s \in Slots :
        ( /\ ServedAlone(s, "update")
          /\ ~storeFailed
          /\ treq[s].resp # "invalid"
          /\ treq[s].uid \in DOMAIN snap.users
          /\ snap.users[treq[s].uid].room_number = treq[s].room
          /\ \A u \in DOMAIN snap.users :
                u # treq[s].uid => snap.users[u].username # treq[s].username )
        => /\ treq[s].resp = "ok"
           /\ treq[s].uid \in DOMAIN users
           /\ users[treq[s].uid].room_number = treq[s].room
           /\ StatusOf(rooms, treq[s].room) = {"occupied"}

(* C10.  PUT /api/users/:user_id naming a room that a different user
   references is answered 'room occupied', and PUT for an unknown user_id
   is answered 'not found'; in both cases no room row and no user row is
   modified.  (When the store rejects one of the two checking statements
   the answer is the 500 of the catch block, and still nothing is
   modified.)  Checked under SpecTenancy. *)
C10_RejectedUpdateChangesNothing ==
    \A s \in Slots :
        ( /\ ServedAlone(s, "update")
          /\ treq[s].resp # "invalid" )
        => /\ ( treq[s].uid \notin DOMAIN snap.users )
                => /\ ~treq[s].fault => treq[s].resp = "not_found"
                   /\ rooms = snap.rooms /\ users = snap.users
           /\ ( /\ treq[s].uid \in DOMAIN snap.users
                /\ Tenants(snap.users, treq[s].room) \ {treq[s].uid} # {} )
                => /\ ~treq[s].fault => treq[s].resp = "room_occupied"
                   /\ rooms = snap.rooms /\ users = snap.users

\* C10's cases are reached: an update naming another tenant's room was
\* answered 'room occupied'.
C10_Witness ==
    \E s \in Slots :
        /\ ServedAlone(s, "update")
        /\ treq[s].resp = "room_occupied"
        /\ treq[s].uid \in DOMAIN snap.users
        /\ Tenants(snap.users, treq[s].room) \ {treq[s].uid} # {}
        /\ snap.users[treq[s].uid].room_number \notin {Null, treq[s].room}

-----------------------------------------------------------------------------
\* The usernames held in a users table.
NamesIn(utbl) == {utbl[u].username : u \in DOMAIN utbl}

(* C11.  After DELETE /api/users/:user_id succeeds for a user bound to room
   R, R's status is 'available', and a following POST /api/register with a
   fresh username that names R succeeds and leaves R 'occupied' and
   referenced by exactly the new user.  DELETE for an unknown user_id is
   answered 'not found' and changes nothing.  Checked under SpecTenancy, on
   the behaviours in which the store rejects no statement. *)
C11_DeleteThenRegister ==
    \A s \in Slots :
        /\ ( ServedAlone(s, "delete") /\ ~storeFailed )
           => /\ ( treq[s].uid \notin DOMAIN snap.users )
                   => /\ treq[s].resp = "not_found"
                      /\ rooms = snap.rooms /\ users = snap.users
              /\ ( /\ treq[s].uid \in DOMAIN snap.users
                   /\ snap.users[treq[s].uid].room_number # Null
                   /\ treq[s].resp = "ok" )
                   => StatusOf(rooms, snap.users[treq[s].uid].room_number)
                          = {"available"}
        /\ ( /\ ServedAlone(s, "register") /\ ~storeFailed
             /\ treq[s].resp # "invalid"
             /\ treq[s].freed # Null
             /\ treq[s].room = treq[s].freed
             /\ treq[s].username \notin NamesIn(snap.users) )
           => /\ treq[s].resp = "created"
              /\ StatusOf(rooms, treq[s].room) = {"occupied"}
              /\ Tenants(users, treq[s].room) = {treq[s].uid}

(* C12.  POST /api/register with a room_number is answered 'room not found'
   when no room row has that number, and 'room occupied' whenever some
   existing user references that room, whatever the room's stored status;
   in both cases no user row is inserted and no room status changes.
   Checked under SpecTenancy, for the requests whose username is free, on
   the behaviours in which the store rejects no statement. *)
C12_RegisterRoomErrors ==
    \A s \in Slots :
        ( /\ ServedAlone(s, "register") /\ ~storeFailed
          /\ treq[s].resp # "invalid"
          /\ treq[s].fresh
          /\ treq[s].room # Null )
        => /\ ( StatusOf(snap.rooms, treq[s].room) = {} )
                => /\ treq[s].resp = "room_not_found"
                   /\ rooms = snap.rooms /\ users = snap.users
           /\ ( Tenants(snap.users, treq[s].room) # {} )
                => /\ treq[s].resp = "room_occupied"
                   /\ rooms = snap.rooms /\ users = snap.users

\* A register request served alone whose username a user row already holds.
TakenUsername(s) ==
    /\ ServedAlone(s, "register")
    /\ treq[s].resp # "invalid"
    /\ treq[s].username \in NamesIn(snap.users)

\* Two completed register requests for one username, served concurrently
\* with each other and with no other kind of request, the name held by no
\* user when either arrived.
RacingForName(p, q) ==
    /\ p # q
    /\ treq[p].pc = "done" /\ treq[q].pc = "done"
    /\ treq[p].op = "register" /\ treq[q].op = "register"
    /\ treq[p].conc /\ treq[q].conc
    /\ ~treq[p].mixed /\ ~treq[q].mixed
    /\ treq[p].username = treq[q].username
    /\ treq[p].fresh /\ treq[q].fresh

\* The answers of the room checks of POST /api/register.
RoomErrors == {"room_occupied", "room_not_found"}

(* C13, as stated.  POST /api/register with a username that is already
   taken is answered with the duplicate-username error, inserts no user row
   and leaves every room's status unchanged; of two concurrent
   registrations with the same username exactly one succeeds.  Checked
   under SpecRegister. *)
C13_TakenUsernameIsDuplicateError ==
    /\ \A s \in Slots :
          TakenUsername(s)
          => /\ treq[s].resp = "dup_username"
             /\ users = snap.users /\ rooms = snap.rooms
    /\ \A p, q \in Slots :
          RacingForName(p, q)
          => Cardinality({s \in {p, q} : treq[s].resp = "created"}) = 1

(* C13, amended.  POST /api/register with a username that is already taken
   fails, inserts no user row and leaves every room's status unchanged; the
   error is the duplicate-username error when the request names no room or
   a room that exists and is not stored as 'occupied' (the room checks come
   first and answer 'room occupied' or 'room not found' otherwise).  Of two
   concurrent registrations with the same fresh username, whatever rooms
   they name or none, at most one succeeds and one that does not succeed
   inserts no row; exactly one succeeds unless both are answered with a
   room error, and a room error is given only to a request that names a
   room which does not exist or is stored 'occupied'.  Checked under
   SpecRegister. *)
C13_TakenUsernameRejected ==
    /\ \A s \in Slots :
          TakenUsername(s)
          => /\ treq[s].resp \in {"dup_username"} \cup RoomErrors
             /\ ( \/ treq[s].room = Null
                  \/ StatusOf(snap.rooms, treq[s].room) = {"available"} )
                => treq[s].resp = "dup_username"
             /\ treq[s].uid = 0
             /\ users = snap.users /\ rooms = snap.rooms
    /\ \A p, q \in Slots :
          RacingForName(p, q)
          => LET won == {s \in {p, q} : treq[s].resp = "created"}
                 refused == {s \in {p, q} : treq[s].resp \in RoomErrors} IN
             /\ Cardinality(won) <= 1
             /\ (won = {}) <=> (refused = {p, q})
             /\ \A s \in {p, q} \ won :
                   /\ treq[s].resp \in {"dup_username"} \cup RoomErrors
                   /\ treq[s].uid = 0
             /\ \A s \in refused :
                   /\ treq[s].room # Null
                   /\ treq[s].resp = "room_not_found"
                        => StatusOf(rooms, treq[s].room) = {}
                   /\ treq[s].resp = "room_occupied"
                        => StatusOf(rooms, treq[s].room) = {"occupied"}
             /\ Cardinality({u \in DOMAIN users :
                                users[u].username = treq[p].username})
                   = Cardinality(won)

\* C13's case is reached: of two racing registrations for one name and two
\* vacant rooms, one was created and the other was answered with the
\* duplicate-username error, its room still 'available'.
C13_Witness ==
    \E p, q \in Slots :
        /\ RacingForName(p, q)
        /\ treq[p].resp = "created"
        /\ treq[q].resp = "dup_username"
        /\ treq[p].room # Null /\ treq[q].room # Null
        /\ treq[p].room # treq[q].room
        /\ StatusOf(rooms, treq[q].room) = {"available"}

\* The race of two registrations that name no room is reached: one was
\* created, the other answered with the duplicate-username error.
C13_RaceWithoutRooms ==
    \E p, q \in Slots :
        /\ RacingForName(p, q)
        /\ treq[p].room = Null /\ treq[q].room = Null
        /\ treq[p].resp = "created"
        /\ treq[q].resp = "dup_username"

\* The race in which neither registration succeeds is reached: both name a
\* room that does not exist or is stored 'occupied'.
C13_RaceRefused ==
    \E p, q \in Slots :
        /\ RacingForName(p, q)
        /\ treq[p].resp \in RoomErrors
        /\ treq[q].resp \in RoomErrors

-----------------------------------------------------------------------------
\* The rents of the room rows numbered n, in a rooms table.
RentsOf(rtbl, n) ==
    {rtbl[i].rent : i \in {j \in DOMAIN rtbl : rtbl[j].room_number = n}}

\* The last payment_history row of bill b.
LastRecord(b) ==
    payment_history[CHOOSE i \in HistoryRows(b) : \A j \in HistoryRows(b) : j <= i]

(* C14.  A bill created by POST /api/bills for an existing room has
   total_amount = water_units*20 + electricity_units*8 + the room's rent
   when it was created (water 10, electricity 20, rent 2500: 2860), its
   payment state is 'unpaid' and it has no payment_history row.  Checked
   under SpecBilling. *)
C14_TotalAtCreation ==
    \A s \in Slots :
        ( /\ BillServedAlone(s, "create")
          /\ RentsOf(snap.rooms, breq[s].room) # {}
          /\ breq[s].failpc = Null )
        => /\ breq[s].resp = "created"
           /\ breq[s].bill \in DOMAIN bills
           /\ LET row == bills[breq[s].bill] IN
              /\ RentsOf(snap.rooms, breq[s].room) = {row.rent_amount}
              /\ row.total_amount = breq[s].water_units * 20
                                    + breq[s].electricity_units * 8
                                    + row.rent_amount
              /\ ( /\ breq[s].water_units = 10
                   /\ breq[s].electricity_units = 20
                   /\ row.rent_amount = 2500 ) => row.total_amount = 2860
              /\ row.payment_state = "unpaid"
              /\ HistoryRows(breq[s].bill) = {}

\* C14's case is reached: the bill of the scenario was created for room 102,
\* whose rent is 3000.
C14_Witness ==
    \E s \in Slots :
        /\ BillServedAlone(s, "create")
        /\ breq[s].resp = "created"
        /\ breq[s].room = "102"
        /\ breq[s].water_units = 15
        /\ breq[s].bill \in DOMAIN bills
        /\ bills[breq[s].bill].total_amount = 3460

(* C15.  No reachable state has a bill whose total_amount disagrees with
   its own usage, rate and rent fields: after a PUT /api/bills/:id that
   changes water_units or electricity_units, total_amount = water_units *
   water_rate + electricity_units * electricity_rate + rent_amount.  Checked
   under SpecBilling. *)
C15_TotalFollowsUsage ==
    \A b \in DOMAIN bills :
        bills[b].total_amount =
            bills[b].water_units * bills[b].water_rate
            + bills[b].electricity_units * bills[b].electricity_rate
            + bills[b].rent_amount

\* A completed PUT /api/bills/:id, served alone and with no statement
\* rejected, that took its bill from 'unpaid' to 'paid'.
PaidTransition(s) ==
    /\ BillServedAlone(s, "put")
    /\ ~storeFailed
    /\ breq[s].resp = "ok"
    /\ breq[s].bill \in DOMAIN snap.bills
    /\ snap.bills[breq[s].bill].payment_state = "unpaid"
    /\ breq[s].bill \in DOMAIN bills
    /\ bills[breq[s].bill].payment_state = "paid"

(* C16, as stated.  The payment_history row appended by the paid-transition
   of a bill has amount_paid = the bill's total_amount, payment_date = the
   request's paid_date when one is given and the current date otherwise,
   and slip_path = the bill's slip reference after the update; it is the
   only row appended.  Checked under SpecBilling. *)
C16_RecordFieldsFromRequest ==
    \A s \in Slots :
        PaidTransition(s)
        => LET b == breq[s].bill IN
           /\ Len(payment_history) = Len(snap.history) + 1
           /\ HistoryRows(b) # {}
           /\ LastRecord(b).amount_paid = bills[b].total_amount
           /\ LastRecord(b).payment_date =
                  IF breq[s].body.paid_date # Undef THEN breq[s].body.paid_date
                  ELSE Today
           /\ LastRecord(b).slip_path = bills[b].slip_path

(* C16, amended.  As above, except for the date: payment_date is the bill's
   paid_date after the update (the request's paid_date when one is given,
   the bill's stored paid_date otherwise), and the current date when the
   bill has none.  Checked under SpecBilling. *)
C16_RecordFieldsFromBill ==
    \A s \in Slots :
        PaidTransition(s)
        => LET b == breq[s].bill IN
           /\ Len(payment_history) = Len(snap.history) + 1
           /\ HistoryRows(b) # {}
           /\ LastRecord(b).amount_paid = bills[b].total_amount
           /\ breq[s].body.paid_date # Undef
                 => LastRecord(b).payment_date = breq[s].body.paid_date
           /\ LastRecord(b).payment_date =
                  IF bills[b].paid_date # Null THEN bills[b].paid_date ELSE Today
           /\ LastRecord(b).slip_path = bills[b].slip_path

\* C16's case is reached: the 2860 bill paid on 2024-05-10 has exactly one
\* record, with amount 2860 and date 2024-05-10.
C16_Witness ==
    \E s \in Slots :
        /\ PaidTransition(s)
        /\ breq[s].body.paid_date = "2024-05-10"
        /\ Cardinality(HistoryRows(breq[s].bill)) = 1
        /\ LastRecord(breq[s].bill).amount_paid = 2860
        /\ LastRecord(breq[s].bill).payment_date = "2024-05-10"

(* C17.  Once a bill's payment state is 'paid' it stays 'paid' in every
   later state until the bill is deleted: no step moves an existing bill
   from 'paid' to another value.  Checked under SpecBilling, on the
   behaviours in which the store rejects no statement. *)
C17_PaidStaysPaid ==
    [][ \A b \in DOMAIN bills :
           ( /\ ~storeFailed'
             /\ bills[b].payment_state = "paid"
             /\ b \in DOMAIN bills' )
           => bills'[b].payment_state = "paid" ]_vars

\* The fields of a bill row that PUT /api/bills/:id may set.
PatchFields ==
    {"slip_path", "payment_state", "paid_date", "water_units",
     "electricity_units", "due_date"}

\* The field of a request body is absent.
Omitted(body, f) ==
    IF f \in {"water_units", "electricity_units"} THEN body[f] = UndefNum
    ELSE body[f] = Undef

(* C18.  PUT /api/bills/:id leaves every bill field that the request omits
   equal to its value before the request and every field outside the six it
   may set unchanged, never touches any other bill, and for an unknown bill
   id is answered 'not found' with no bill and no payment_history row
   changed.  Checked under SpecFrame (two bills, requests served one at a
   time). *)
C18_OmittedFieldsKept ==
    \A s \in Slots :
        BillServedAlone(s, "put")
        => LET b == breq[s].bill IN
           /\ DOMAIN bills = DOMAIN snap.bills
           /\ \A o \in DOMAIN bills \ {b} : bills[o] = snap.bills[o]
           /\ ( b \notin DOMAIN snap.bills )
                => /\ breq[s].resp = "not_found"
                   /\ bills = snap.bills
                   /\ payment_history = snap.history
           /\ ( b \in DOMAIN snap.bills )
                => \A f \in DOMAIN bills[b] :
                      ( f \notin PatchFields \/ Omitted(breq[s].body, f) )
                      => bills[b][f] = snap.bills[b][f]

\* C18's case is reached: with two bills stored, a request that sets only
\* water_units on a paid bill with a slip changed that field and kept the
\* others.
C18_Witness ==
    \E s \in Slots :
        /\ BillServedAlone(s, "put")
        /\ breq[s].resp = "ok"
        /\ Cardinality(DOMAIN bills) = 2
        /\ breq[s].body = [NoBody EXCEPT !.water_units = 15]
        /\ bills[breq[s].bill].water_units # snap.bills[breq[s].bill].water_units
        /\ bills[breq[s].bill].payment_state = "paid"
        /\ bills[breq[s].bill].slip_path = "slip.png"

(* C19.  In every reachable state every payment_history row's bill_id names
   an existing bill; after DELETE /api/bills/:id succeeds the bill is gone,
   no payment_history row references it and no other bill has changed;
   DELETE for an unknown bill id is answered 'not found' and changes
   nothing.  The id is the number parseInt reads from the path segment,
   blanks and sign included; a segment in which it reads no digit is
   answered 'invalid' and changes nothing either.  Checked under
   SpecBillDelete (paying and deleting requests interleaved, the requests
   served alone among them), where the first part fails: on a store that
   does not enforce the reference, the INSERT of a paying PUT that follows
   a concurrent DELETE of its bill adds a row for a bill that is gone. *)
C19_NoDanglingRecords ==
    /\ \A i \in 1..Len(payment_history) :
          payment_history[i].bill_id \in DOMAIN bills
    /\ \A s \in Slots :
          BillServedAlone(s, "delete")
          => LET b == breq[s].bill IN
             /\ ( b \notin DOMAIN snap.bills )
                  => /\ (breq[s].failpc = Null /\ breq[s].resp # "invalid")
                        => breq[s].resp = "not_found"
                     /\ bills = snap.bills
                     /\ payment_history = snap.history
             /\ ( breq[s].resp = "ok" )
                  => /\ b \in DOMAIN snap.bills
                     /\ b \notin DOMAIN bills
                     /\ HistoryRows(b) = {}
                     /\ \A o \in DOMAIN snap.bills \ {b} :
                           o \in DOMAIN bills /\ bills[o] = snap.bills[o]

(* C20.  The rent_amount and the total_amount of an existing bill never
   change while rooms are edited (PUT /api/rooms/:room_id with another
   rent) or deleted, and a bill is created with the rent its room has at
   that moment: only bills created after a change use the new rent.
   Checked under SpecRent. *)
C20_RentIsSnapshot ==
    [][ /\ \A b \in DOMAIN bills :
             b \in DOMAIN bills'
             /\ bills'[b].rent_amount = bills[b].rent_amount
             /\ bills'[b].total_amount = bills[b].total_amount
        /\ \A b \in DOMAIN bills' \ DOMAIN bills :
             RentsOf(rooms, bills'[b].room_number) = {bills'[b].rent_amount}
      ]_vars

\* C20's case is reached: two bills of one room, the first created before
\* the room's rent was changed and still at the old rent, the second
\* created afterwards at the new rent.
C20_Witness ==
    \E b1, b2 \in DOMAIN bills :
        /\ b1 < b2
        /\ bills[b1].room_number = bills[b2].room_number
        /\ bills[b1].rent_amount = 2500
        /\ bills[b2].rent_amount = 3500
        /\ RentsOf(rooms, bills[b2].room_number) = {3500}

-----------------------------------------------------------------------------
\* C21: POST /api/rooms and PUT /api/rooms/:room_id never set a room's
\* status independently of occupancy: the row a request has just written
\* is 'occupied' if and only if some user references its room number,
\* whatever status value (or none) the request carried.
C21_RoomStatusFollowsOccupancy ==
    [][\A s \in Slots :
          ( /\ rreq[s].pc \in {"post_insert", "room_update"}
            /\ rreq'[s].resp \in {"created", "ok"}
            /\ rreq'[s].room_id \in DOMAIN rooms' )
          => LET row == rooms'[rreq'[s].room_id] IN
             (row.status = "occupied") <=> (Tenants(users', row.room_number) # {})
      ]_vars

-----------------------------------------------------------------------------
\* The rows of a rooms table that carry room number n.
RowsNumbered(rtbl, n) == {i \in DOMAIN rtbl : rtbl[i].room_number = n}

\* Slot s holds an answered POST or PUT of a room that was accepted.
RoomWritten(s) ==
    /\ rreq[s].pc = "done"
    /\ rreq[s].op \in {"post", "put"}
    /\ rreq[s].resp \in {"created", "ok"}

\* C22: no two room rows ever share a room_number.  A POST or PUT served
\* alone that names a number carried by another room is rejected as a
\* duplicate, and of two concurrent POST/PUT requests that give the same
\* number to different rooms at most one succeeds.
C22_RoomNumbersUnique ==
    /\ \A i, j \in DOMAIN rooms :
          i # j => rooms[i].room_number # rooms[j].room_number
    /\ \A s \in Slots :
          ( /\ rreq[s].pc = "done" /\ rreq[s].op \in {"post", "put"}
            /\ ~rreq[s].conc /\ snap.owner = s /\ snap.kind = "room"
            /\ rreq[s].resp \notin {"invalid", "not_found"}
            /\ RowsNumbered(snap.rooms, rreq[s].room_number)
                  \ {rreq[s].room_id} # {} )
          => rreq[s].resp \in {"dup_room", "error"} /\ rooms = snap.rooms
    /\ \A p, q \in Slots :
          ( /\ p # q /\ RoomWritten(p) /\ RoomWritten(q)
            /\ rreq[p].conc /\ rreq[q].conc
            /\ rreq[p].room_number = rreq[q].room_number )
          => rreq[p].room_id = rreq[q].room_id

\* Two concurrent requests gave the same number to different rooms; both
\* passed the duplicate check, one was accepted and the other was refused by
\* the store.
C22_Witness ==
    \E p, q \in Slots :
        /\ p # q
        /\ RoomWritten(p) /\ rreq[p].conc
        /\ ~storeFailed
        /\ rreq[q].pc = "done" /\ rreq[q].conc /\ rreq[q].resp = "error"
        /\ rreq[q].op \in {"post", "put"}
        /\ rreq[p].room_number = rreq[q].room_number
        /\ rreq[p].room_id # rreq[q].room_id
        /\ Cardinality(RowsNumbered(rooms, rreq[p].room_number)) = 1

-----------------------------------------------------------------------------
\* The rows of a payment_history table that do not belong to bill b, in order.
RowsOfOtherBills(h, b) == SelectSeq(h, LAMBDA r : r.bill_id # b)

\* C23: payment_history is append-only.  Every step leaves it unchanged,
\* or is the INSERT of PUT /api/bills/:id appending one row and keeping
\* the rows before it, or is the DELETE of a bill removing exactly the rows
\* of that bill and keeping every other row as it was.
C23_HistoryAppendOnly ==
    [][ \/ payment_history' = payment_history
        \/ \E s \in Slots :
              /\ breq[s].op = "put" /\ breq[s].pc = "put_history"
              /\ Len(payment_history') = Len(payment_history) + 1
              /\ SubSeq(payment_history', 1, Len(payment_history)) = payment_history
        \/ \E s \in Slots :
              /\ breq[s].op = "delete" /\ breq[s].pc = "bdel_row"
              /\ breq[s].bill \in DOMAIN bills
              /\ breq[s].bill \notin DOMAIN bills'
              /\ payment_history' = RowsOfOtherBills(payment_history, breq[s].bill)
      ]_vars

\* Two bills have been paid, one of them has been deleted with its record
\* and the record of the other is still there.
C23_Witness ==
    \E s \in Slots :
        /\ breq[s].op = "delete" /\ breq[s].pc = "done" /\ breq[s].resp = "ok"
        /\ Len(payment_history) = 1
        /\ payment_history[1].bill_id # breq[s].bill
        /\ payment_history[1].bill_id \in DOMAIN bills
        /\ users # EmptyTable

-----------------------------------------------------------------------------
\* C24: no bill operation changes a room or a user.  Every step of a bill
\* handler (a step that moves a bill request) leaves rooms and users as
\* they are, and while a bill request served alone is in flight or answered,
\* rooms and users are what they were when it arrived.
C24_BillsLeaveTenancyAlone ==
    /\ [][ (breq' # breq) => (rooms' = rooms /\ users' = users) ]_vars
    /\ [](\A s \in Slots :
             ( /\ breq[s].op \in {"create", "put", "delete"}
               /\ snap.owner = s /\ snap.kind = "bill" )
             => (rooms = snap.rooms /\ users = snap.users))

\* A bill has been created, paid and deleted while a tenant holds a room.
C24_Witness ==
    \E s \in Slots :
        /\ BillServedAlone(s, "delete") /\ breq[s].resp = "ok"
        /\ Len(payment_history) = 1
        /\ \E u \in DOMAIN users : users[u].room_number = "101"
        /\ \E i \in DOMAIN rooms : rooms[i].status = "occupied"

-----------------------------------------------------------------------------
\* C25: POST /api/bills naming a room_number for which no room row exists
\* is answered with the room-not-found error and inserts no bill row.
C25_UnknownRoomNoBill ==
    \A s \in Slots :
        ( /\ BillServedAlone(s, "create")
          /\ RowsNumbered(snap.rooms, breq[s].room) = {} )
        => /\ breq[s].resp = "room_not_found"
           /\ bills = snap.bills
           /\ payment_history = snap.history

\* A bill was created for room 101, the room was deleted, and a second bill
\* for room 101 has been refused.
C25_Witness ==
    \E s \in Slots :
        /\ BillServedAlone(s, "create")
        /\ breq[s].room = "101"
        /\ RowsNumbered(snap.rooms, "101") = {}
        /\ breq[s].resp = "room_not_found"
        /\ \E b \in DOMAIN bills : bills[b].room_number = "101"

-----------------------------------------------------------------------------
\* C26: every user's role is 'user' or 'admin' in every reachable state;
\* in particular a PUT /api/users/:user_id without a role leaves the
\* stored role in {user, admin}.
C26_RoleIsUserOrAdmin ==
    \A u \in DOMAIN users : users[u].role \in {"user", "admin"}

-----------------------------------------------------------------------------
\* C27: in every reachable state every bill that has a payment_history row
\* has payment state 'paid', also when a PUT /api/bills/:id that sets
\* 'paid' runs concurrently with a PUT on the same bill that omits
\* payment_state.
C27_RecordedBillIsPaid ==
    \A b \in DOMAIN bills :
        HistoryRows(b) # {} => bills[b].payment_state = "paid"

-----------------------------------------------------------------------------
\* C28: in every reachable state every user's non-null room_number names
\* an existing room row; DELETE /api/rooms/:room_id and a renumbering
\* PUT /api/rooms/:room_id never leave a user referencing a room number
\* that no longer exists.
C28_TenantRoomsExist ==
    \A u \in DOMAIN users :
        users[u].room_number # Null
        => RowsNumbered(rooms, users[u].room_number) # {}

-----------------------------------------------------------------------------
\* The connections checked out by room requests.
HeldByRequests == Cardinality({s \in Slots : rreq[s].conn # "none"})

\* C29: every connection the liveness probe takes from the pool is
\* released, whether the ping succeeds or fails: whenever no probe callback
\* is running, all connectionLimit connections are free or held by request
\* handlers, however many probes have failed.
C29_ProbeGivesConnectionBack ==
    (probe.getting = 0 /\ probe.pinging = 0)
    => freeConnections + HeldByRequests = connectionLimit

====
